---- MODULE Spec2Model ----
(***************************************************************************)
(* A model of flaskbb's markup subsystem (flaskbb/markup.py), of the URL    *)
(* safety check (flaskbb/utils/http.py) and of the command line helpers    *)
(* prompt_config_path and EmailType (flaskbb/cli/utils.py).                *)
(*                                                                         *)
(* Texts are sequences of one-character strings.  Each part of the         *)
(* program has its own variables and its own specification; a              *)
(* specification leaves the variables of the other parts at their idle     *)
(* values.                                                                 *)
(***************************************************************************)
EXTENDS Integers, Sequences, FiniteSets, TLC

VARIABLES
    text,       \* mention expander: the raw document handed to the parser
    src,        \* mention expander: state.src of the parse in progress
    prev,       \* mention expander: state.src before the latest pass
    runs,       \* mention expander: number of passes of process_mentions so far
    code,       \* code block: the code argument of block_code
    info,       \* code block: the info argument of block_code
    codeResult, \* code block: what the call did (NotCalled before it)
    url,            \* is_safe_url: the url argument
    allowed_hosts,  \* is_safe_url: the allowed_hosts argument
    require_https,  \* is_safe_url: the require_https argument
    safe,           \* is_safe_url: the value returned
    urlPc,          \* is_safe_url: "call" before the call, "returned" after
    classes,    \* make_renderer: the classes argument
    mkPlugins,  \* make_renderer: the plugins argument
    filter,     \* make_renderer: the callable returned (NotBuilt before)
    doc,        \* the document the returned callable was last called with
    rendered,   \* what that call did (NotCalled before it)
    buildPc,        \* flaskbb_jinja_directives: the statement to run next
    heap,           \* the list objects: DEFAULT_PLUGINS, its copies, a hook result
    render_classes, \* flaskbb_jinja_directives: local render_classes
    plugins,        \* flaskbb_jinja_directives: the list local plugins refers to
    postImpls,      \* the registered flaskbb_load_post_markdown_plugins impls
    nonpostImpls,   \* the registered flaskbb_load_nonpost_markdown_plugins impls
    filters,        \* app.jinja_env.filters: markup and nonpost_markup
    calls,      \* the calls of the filters in progress, one per thread
    config_path, \* prompt_config_path: local config_path
    existing,    \* the paths for which os.path.exists is true
    confirmed,   \* prompt_config_path: the latest answer of click.confirm
    promptPc,    \* prompt_config_path: the statement to run next
    email_value, \* EmailType.convert: the value argument
    converted   \* EmailType.convert: what the call did (NotCalled before it)

mentionVars == <<text, src, prev, runs>>
codeVars == <<code, info, codeResult>>
urlVars == <<url, allowed_hosts, require_https, safe, urlPc>>

composeVars == <<classes, mkPlugins, filter, doc, rendered>>

buildVars ==
    <<buildPc, heap, render_classes, plugins, postImpls, nonpostImpls, filters>>

promptVars == <<config_path, existing, confirmed, promptPc>>
emailVars == <<email_value, converted>>
cliVars == <<promptVars, emailVars>>

vars ==
    <<mentionVars, codeVars, urlVars, composeVars, buildVars, calls, cliVars>>

----------------------------------------------------------------------------
(* Bounds *)

\* longest raw document of the mention expander
MaxLen == 4
\* passes of process_mentions over one state.src
MaxRuns == 2
\* longest code text of a code block
MaxCode == 3
\* longest url handed to is_safe_url
MaxUrl == 4
\* longest body of a rendered document
MaxBody == 2
\* most implementations registered for one plugin-list hook
MaxImpls == 2
\* threads that call the filters at the same time
NumCalls == 2
\* longest value handed to EmailType.convert
MaxEmail == 6

----------------------------------------------------------------------------
(* Texts *)

Range(s) == {s[i] : i \in 1..Len(s)}

Strings(A, n) == UNION {[1..k -> A] : k \in 0..n}

RECURSIVE Concat(_)
Concat(ss) == IF ss = <<>> THEN <<>> ELSE Head(ss) \o Concat(Tail(ss))

----------------------------------------------------------------------------
(* Mention expander: MENTION_REGEX = \B@([\w\-]+), markup.py:50-60 *)

\* \w: letters, digits, underscore
WordChars == {"a", "b", "_", "1", "u", "s", "e", "r"}

\* [\w\-]
NameChars == WordChars \cup {"-"}

\* the characters documents are drawn from: a word character, the hyphen
\* (a name character that is not a word character), the at sign and a space
MentionAlphabet == {"a", "-", "@", " "}

IsWordAt(s, k) == k \in 1..Len(s) /\ s[k] \in WordChars

\* \B at the gap before s[i]: not a word boundary, i.e. both sides are word
\* characters or neither is (the outside of the text is not a word character)
NonWordBoundary(s, i) == IsWordAt(s, i - 1) = IsWordAt(s, i)

\* the end of the greedy run [\w\-]+ that starts at j (j - 1 when empty)
RECURSIVE NameEnd(_, _)
NameEnd(s, j) ==
    IF j <= Len(s) /\ s[j] \in NameChars THEN NameEnd(s, j + 1) ELSE j - 1

\* MENTION_REGEX matches at i
MentionRegexNoBoundary(s, i) ==
    /\ i <= Len(s)
    /\ s[i] = "@"
    /\ NameEnd(s, i + 1) >= i + 1

MENTION_REGEX(s, i) ==
    /\ i <= Len(s)
    /\ NonWordBoundary(s, i)
    /\ s[i] = "@"
    /\ NameEnd(s, i + 1) >= i + 1

\* url_for("user.profile", username=username, _external=False)
url_for(username) == <<"/", "u", "s", "e", "r", "/">> \o username

\* the replacement with the captured name as the link text, m.group(1)
ReplaceMentionGroup1(s, i, e) ==
    <<"[">> \o SubSeq(s, i + 1, e) \o <<"]", "(">>
        \o url_for(SubSeq(s, i + 1, e)) \o <<")">>

\* f"[{m.group(0)}]({url})" for the match s[i..e]
replace_mention_with_linktag(s, i, e) ==
    <<"[">> \o SubSeq(s, i, e) \o <<"]", "(">>
        \o url_for(SubSeq(s, i + 1, e)) \o <<")">>

\* MENTION_REGEX.sub(replace_mention_with_linktag, s) scanning from i:
\* leftmost non-overlapping matches are replaced, the rest is copied
RECURSIVE MentionSub(_, _)
MentionSub(s, i) ==
    IF i > Len(s) THEN <<>>
    ELSE IF MENTION_REGEX(s, i)
         THEN replace_mention_with_linktag(s, i, NameEnd(s, i + 1))
                  \o MentionSub(s, NameEnd(s, i + 1) + 1)
         ELSE <<s[i]>> \o MentionSub(s, i + 1)

\* process_mentions(md, state): the new state.src
process_mentions(statesrc) == MentionSub(statesrc, 1)

MentionIdle ==
    /\ text = <<>>
    /\ src = <<>>
    /\ prev = <<>>
    /\ runs = MaxRuns

MentionInit ==
    /\ text \in Strings(MentionAlphabet, MaxLen)
    /\ src = text
    /\ prev = text
    /\ runs = 0

\* one pass of process_mentions over state.src
ProcessMentions ==
    /\ runs < MaxRuns
    /\ prev' = src
    /\ src' = process_mentions(src)
    /\ runs' = runs + 1
    /\ UNCHANGED text
    /\ UNCHANGED <<codeVars, urlVars, composeVars, buildVars, calls, cliVars>>

MentionNext == ProcessMentions

----------------------------------------------------------------------------
(* HTML output: a sequence whose elements are single characters of text    *)
(* and whole tags emitted by a renderer; a "<" element is a raw less-than  *)
(* character, never part of an emitted tag                                 *)

Whitespace == {" ", "\n"}

\* mistune.escape: & < > " become entities
EscapeChar(c) ==
    CASE c = "&" -> <<"&", "a", "m", "p", ";">>
      [] c = "<" -> <<"&", "l", "t", ";">>
      [] c = ">" -> <<"&", "g", "t", ";">>
      [] c = "\"" -> <<"&", "q", "u", "o", "t", ";">>
      [] OTHER -> <<c>>

RECURSIVE escape(_)
escape(s) == IF s = <<>> THEN <<>> ELSE EscapeChar(Head(s)) \o escape(Tail(s))

----------------------------------------------------------------------------
(* Code block highlighter: FlaskBBRenderer.block_code, markup.py:97-109 *)

\* Python's None
None == "<None>"

\* the aliases pygments has a lexer for
LexerAliases == {"python"}

\* the info strings a code block is rendered with: absent, empty, recognized
\* and unrecognized
InfoTags == {None, "", "python", "nosuchlang"}

CodeAlphabet == {"x", "<", "&", " ", "\n"}

\* get_lexer_by_name(info, stripall=True): a lexer, or ClassNotFound raised
get_lexer_by_name(alias) ==
    IF alias \in LexerAliases
    THEN [raised |-> None, lexer |-> alias]
    ELSE [raised |-> "ClassNotFound", lexer |-> None]

RECURSIVE LStrip(_)
LStrip(s) ==
    IF s # <<>> /\ Head(s) \in Whitespace THEN LStrip(Tail(s)) ELSE s

RECURSIVE RStrip(_)
RStrip(s) ==
    IF s # <<>> /\ s[Len(s)] \in Whitespace
    THEN RStrip(SubSeq(s, 1, Len(s) - 1)) ELSE s

\* the lexer's preparation of its input with stripall=True and the default
\* ensurenl: text.strip(), then a final line break
LexerInput(s) == RStrip(LStrip(s)) \o <<"\n">>

\* the formatter's markup of the prepared text from position i on: each run
\* of other characters is a token in a span, whitespace is written as it is,
\* every character escaped
RECURSIVE FormatTokens(_, _, _)
FormatTokens(s, i, inToken) ==
    IF i > Len(s) THEN (IF inToken THEN <<"</span>">> ELSE <<>>)
    ELSE IF s[i] \in Whitespace
         THEN (IF inToken THEN <<"</span>">> ELSE <<>>)
                  \o <<s[i]>> \o FormatTokens(s, i + 1, FALSE)
         ELSE (IF inToken THEN <<>> ELSE <<"<span class=n>">>)
                  \o EscapeChar(s[i]) \o FormatTokens(s, i + 1, TRUE)

\* highlight(code, lexer, HtmlFormatter())
highlight(c, lexer) ==
    <<"<div class=highlight>", "<pre>", "<span>", "</span>">>
        \o FormatTokens(LexerInput(c), 1, FALSE)
        \o <<"</pre>", "</div>", "\n">>

\* the fallback without the escape
FallbackBlockRaw(c) ==
    <<"\n", "<pre>", "<code>">> \o c \o <<"</code>", "</pre>", "\n">>

\* "\n<pre><code>%s</code></pre>\n" % mistune.escape(code)
FallbackBlock(c) ==
    <<"\n", "<pre>", "<code>">> \o escape(c) \o <<"</code>", "</pre>", "\n">>

\* block_code without the except clause: ClassNotFound propagates
BlockCodeNoExcept(c, i) ==
    LET found == IF i # None /\ i # "" THEN get_lexer_by_name(i)
                 ELSE [raised |-> None, lexer |-> None]
    IN  IF found.raised # None THEN [raised |-> found.raised, out |-> <<>>]
        ELSE IF found.lexer = None
             THEN [raised |-> None, out |-> FallbackBlock(c)]
             ELSE [raised |-> None, out |-> highlight(c, found.lexer)]

\* block_code with a lexer built without stripall
BlockCodeKeepAll(c, i) ==
    LET lexer == IF i # None /\ i # "" /\ get_lexer_by_name(i).raised = None
                 THEN get_lexer_by_name(i).lexer ELSE None
    IN  IF lexer = None
        THEN [raised |-> None, out |-> FallbackBlock(c)]
        ELSE [raised |-> None,
              out |-> <<"<div class=highlight>", "<pre>", "<span>", "</span>">>
                          \o FormatTokens(c \o <<"\n">>, 1, FALSE)
                          \o <<"</pre>", "</div>", "\n">>]

\* FlaskBBRenderer.block_code(code, info): what is raised and what is returned
block_code(c, i) ==
    LET lexer == IF i # None /\ i # ""
                 THEN (IF get_lexer_by_name(i).raised = None
                       THEN get_lexer_by_name(i).lexer
                       ELSE None)
                 ELSE None
    IN  IF lexer = None
        THEN [raised |-> None, out |-> FallbackBlock(c)]
        ELSE [raised |-> None, out |-> highlight(c, lexer)]

NotCalled == [raised |-> None, out |-> <<"<not called>">>]

CodeIdle ==
    /\ code = <<>>
    /\ info = None
    /\ codeResult = [raised |-> None, out |-> <<>>]

CodeInit ==
    /\ code \in Strings(CodeAlphabet, MaxCode)
    /\ info \in InfoTags
    /\ codeResult = NotCalled

\* the parser hands a code block to the renderer
BlockCode ==
    /\ codeResult = NotCalled
    /\ codeResult' = block_code(code, info)
    /\ UNCHANGED <<code, info>>
    /\ UNCHANGED <<mentionVars, urlVars, composeVars, buildVars, calls, cliVars>>

CodeNext == BlockCode

----------------------------------------------------------------------------
(* URL safety check: flaskbb/utils/http.py                                 *)
(* A url is a sequence of atoms: a run of letters ("http", "https", "e"),  *)
(* a colon, a slash, a backslash, a space or a control character ("^A").   *)
(* No atom is a bracket, so urlparse never raises ValueError here.         *)

UrlAlphabet == {"http", "https", "e", ":", "/", "\\", " ", "^A"}

Letters == {"http", "https", "e"}

ControlChars == {"^A"}

\* the url None
NoneUrl == <<"<None>">>

\* the allowed_hosts arguments: None, a str, a list
HostArgs ==
    {[kind |-> "none", value |-> {}],
     [kind |-> "str", value |-> <<"e">>],
     [kind |-> "list", value |-> {<<"e">>, <<"e", ":", "e">>}]}

RECURSIVE LStripSet(_, _)
LStripSet(s, cs) ==
    IF s # <<>> /\ Head(s) \in cs THEN LStripSet(Tail(s), cs) ELSE s

\* the first position of atom a in s, 0 when there is none (str.find + 1)
Find(s, a) ==
    IF a \in Range(s) THEN CHOOSE k \in 1..Len(s) :
                               s[k] = a /\ \A j \in 1..(k - 1) : s[j] # a
    ELSE 0

\* s.replace("\\", "/")
ReplaceBackslash(s) == [k \in 1..Len(s) |-> IF s[k] = "\\" THEN "/" ELSE s[k]]

\* urlparse(url): the scheme and the netloc.  Leading control characters
\* and spaces are dropped; the scheme is what precedes the first colon when
\* that is a non-empty run of letters; the netloc follows a leading "//" up
\* to the next slash
urlparse(u) ==
    LET u1 == LStripSet(u, ControlChars \cup {" "})
        i == Find(u1, ":")
        hasScheme == i > 1 /\ \A k \in 1..(i - 1) : u1[k] \in Letters
        scheme == IF hasScheme THEN SubSeq(u1, 1, i - 1) ELSE <<>>
        u2 == IF hasScheme THEN SubSeq(u1, i + 1, Len(u1)) ELSE u1
        hasNetloc == Len(u2) >= 2 /\ u2[1] = "/" /\ u2[2] = "/"
        rest == SubSeq(u2, 3, Len(u2))
        j == Find(rest, "/")
        netloc == IF ~hasNetloc THEN <<>>
                  ELSE IF j = 0 THEN rest ELSE SubSeq(rest, 1, j - 1)
    IN  [scheme |-> scheme, netloc |-> netloc]

\* _url_has_allowed_host_and_scheme(url, allowed_hosts, require_https)
url_has_allowed_host_and_scheme(u, hosts, https) ==
    IF Len(u) >= 3 /\ SubSeq(u, 1, 3) = <<"/", "/", "/">> THEN FALSE
    ELSE LET url_info == urlparse(u)
             scheme == IF url_info.scheme = <<>> /\ url_info.netloc # <<>>
                       THEN <<"http">> ELSE url_info.scheme
             valid_schemes == IF https THEN {<<"https">>}
                              ELSE {<<"http">>, <<"https">>}
         IN  IF url_info.netloc = <<>> /\ url_info.scheme # <<>> THEN FALSE
             ELSE IF u[1] \in ControlChars THEN FALSE
             ELSE /\ (url_info.netloc = <<>> \/ url_info.netloc \in hosts)
                  /\ (scheme = <<>> \/ scheme \in valid_schemes)

\* is_safe_url that checks the url as given only
IsSafeUrlAsGivenOnly(u, hostarg, https) ==
    LET stripped == IF u = NoneUrl THEN NoneUrl ELSE RStrip(LStrip(u))
        hosts == IF hostarg.kind = "str" THEN {hostarg.value} ELSE hostarg.value
    IN  IF stripped = NoneUrl \/ stripped = <<>> THEN FALSE
        ELSE url_has_allowed_host_and_scheme(stripped, hosts, https)

\* is_safe_url(url, allowed_hosts, require_https)
is_safe_url(u, hostarg, https) ==
    LET stripped == IF u = NoneUrl THEN NoneUrl ELSE RStrip(LStrip(u))
        hosts == IF hostarg.kind = "none" THEN {}
                 ELSE IF hostarg.kind = "str" THEN {hostarg.value}
                 ELSE hostarg.value
    IN  IF stripped = NoneUrl \/ stripped = <<>> THEN FALSE
        ELSE /\ url_has_allowed_host_and_scheme(stripped, hosts, https)
             /\ url_has_allowed_host_and_scheme(
                    ReplaceBackslash(stripped), hosts, https)

UrlIdle ==
    /\ url = NoneUrl
    /\ allowed_hosts = [kind |-> "none", value |-> {}]
    /\ require_https = FALSE
    /\ safe = FALSE
    /\ urlPc = "returned"

UrlInit ==
    /\ url \in {NoneUrl} \cup Strings(UrlAlphabet, MaxUrl)
    /\ allowed_hosts \in HostArgs
    /\ require_https \in BOOLEAN
    /\ safe = FALSE
    /\ urlPc = "call"

\* a caller asks whether the url is safe to redirect to
IsSafeUrl ==
    /\ urlPc = "call"
    /\ urlPc' = "returned"
    /\ safe' = is_safe_url(url, allowed_hosts, require_https)
    /\ UNCHANGED <<url, allowed_hosts, require_https>>
    /\ UNCHANGED <<mentionVars, codeVars, composeVars, buildVars, calls, cliVars>>

UrlNext == IsSafeUrl

----------------------------------------------------------------------------
(* Renderer composition and the pipeline: make_renderer, markup.py:137-148 *)

\* the rendering hooks of the model: the code block hook FlaskBBRenderer
\* overrides, the raw HTML block hook, and a hook only plugins override
Hooks == {"block_code", "block_html", "heading"}

\* mistune's HTMLRenderer, the renderer of this module, and classes plugins
\* return from the class hook
Overrides == {"FlaskBBRenderer", "PluginA", "PluginB", "PluginC"}

\* the direct bases of each class, in order
Bases(c) ==
    CASE c = "HTMLRenderer" -> <<>>
      [] c = "FlaskBBRenderer" -> <<"HTMLRenderer">>
      [] c = "PluginA" -> <<"HTMLRenderer">>
      [] c = "PluginB" -> <<"HTMLRenderer">>
      [] c = "PluginC" -> <<"FlaskBBRenderer">>

\* the hooks each class defines in its own body
Defines(c) ==
    CASE c = "HTMLRenderer" -> Hooks
      [] c = "FlaskBBRenderer" -> {"block_code"}
      [] c = "PluginA" -> {"heading"}
      [] c = "PluginB" -> {"heading", "block_html"}
      [] c = "PluginC" -> {"block_code"}

\* the sequences of classes the class hook can return: any order of any
\* distinct classes, none included
ClassSeqs ==
    {s \in Strings(Overrides, Cardinality(Overrides)) :
        \A i, j \in 1..Len(s) : i # j => s[i] # s[j]}

\* the linearization of a class whose ancestors form a chain
RECURSIVE Linearization(_)
Linearization(c) ==
    IF Bases(c) = <<>> THEN <<c>> ELSE <<c>> \o Linearization(Bases(c)[1])

\* the C3 merge of the sequences ss: repeatedly the head of the first
\* sequence whose head is in the tail of no sequence; no such head is an
\* inconsistent order
RECURSIVE C3Merge(_)
C3Merge(ss) ==
    LET ne == SelectSeq(ss, LAMBDA s : s # <<>>)
        good == {k \in 1..Len(ne) :
                    \A j \in 1..Len(ne) : Head(ne[k]) \notin Range(Tail(ne[j]))}
    IN  IF ne = <<>> THEN [ok |-> TRUE, mro |-> <<>>]
        ELSE IF good = {} THEN [ok |-> FALSE, mro |-> <<>>]
        ELSE LET k == CHOOSE x \in good : \A y \in good : x <= y
                 h == Head(ne[k])
                 rest == C3Merge([j \in 1..Len(ne) |->
                             IF Head(ne[j]) = h THEN Tail(ne[j]) ELSE ne[j]])
             IN  [ok |-> rest.ok, mro |-> <<h>> \o rest.mro]

\* the method resolution order of type(name, bases, {}) without the new
\* class itself
Mro(bases) ==
    C3Merge([k \in 1..Len(bases) |-> Linearization(bases[k])] \o <<bases>>)

\* the class whose definition of hook h an instance uses
RECURSIVE Lookup(_, _)
Lookup(mro, h) ==
    IF mro = <<>> THEN "<missing>"
    ELSE IF h \in Defines(Head(mro)) THEN Head(mro)
    ELSE Lookup(Tail(mro), h)

Reverse(s) == [k \in 1..Len(s) |-> s[Len(s) + 1 - k]]

DEFAULT_PLUGINS ==
    <<"plugin_mention", "url", "strikethrough", "spoiler", "subscript",
      "superscript", "insert", "mark", "abbr", "def_list", "task_lists",
      "table", "footnotes", "speedup">>

\* what applying the plugins to the new Markdown leaves in
\* md.before_parse_hooks: plugin_mention appends process_mentions
RECURSIVE BeforeParseHooks(_)
BeforeParseHooks(pl) ==
    IF pl = <<>> THEN <<>>
    ELSE (IF Head(pl) = "plugin_mention" THEN <<"process_mentions">>
          ELSE <<>>) \o BeforeParseHooks(Tail(pl))

NotBuilt ==
    [error |-> "<not built>", hooks |-> [h \in Hooks |-> "<missing>"],
     plugins |-> <<>>, before_parse_hooks |-> <<>>]

\* the plugins of DEFAULT_PLUGINS that register a method with md.renderer
\* and read md.renderer.NAME for it
RendererPlugins ==
    {"strikethrough", "spoiler", "subscript", "superscript", "insert", "mark",
     "abbr", "def_list", "task_lists", "table", "footnotes"}

\* the callable for the method resolution order m and the plugins: applying
\* a plugin that registers a renderer method to a renderer that is no
\* HTMLRenderer raises AttributeError
Built(m, pl) ==
    IF ~m.ok THEN [NotBuilt EXCEPT !.error = "TypeError"]
    ELSE IF "HTMLRenderer" \notin Range(m.mro)
            /\ Range(pl) \cap RendererPlugins # {}
         THEN [NotBuilt EXCEPT !.error = "AttributeError"]
    ELSE [error |-> None,
          hooks |-> [h \in Hooks |-> Lookup(m.mro, h)],
          plugins |-> pl,
          before_parse_hooks |-> BeforeParseHooks(pl)]

\* make_renderer with the bases in the opposite order
MakeRendererReversed(cls, pl) == Built(Mro(Reverse(cls)), pl)

\* make_renderer(classes, plugins): type() raises TypeError when the bases
\* have no consistent order; otherwise the callable, given by the hooks of
\* RenderCls() and the Markdown the plugins were applied to
make_renderer(cls, pl) == Built(Mro(cls), pl)

\* the hooks of mistune's HTMLRenderer, built with its default escape=True,
\* and of the plugin classes: PluginB writes raw HTML blocks as they are,
\* PluginC writes code blocks escaped in a container of its own
HtmlRendererBlockCode(body) ==
    <<"<pre>", "<code>">> \o escape(body) \o <<"</code>", "</pre>", "\n">>

HtmlRendererBlockHtml(body) ==
    <<"<p>">> \o escape(RStrip(LStrip(body))) \o <<"</p>", "\n">>

CallHook(cls, hook, body, i) ==
    CASE cls = "<missing>" -> [raised |-> "TypeError", out |-> <<>>]
      [] cls = "FlaskBBRenderer" /\ hook = "block_code" -> block_code(body, i)
      [] cls = "PluginC" /\ hook = "block_code" ->
             [raised |-> None,
              out |-> <<"<pre>">> \o escape(body) \o <<"</pre>">>]
      [] cls = "PluginB" /\ hook = "block_html" ->
             [raised |-> None, out |-> body \o <<"\n">>]
      [] cls = "HTMLRenderer" /\ hook = "block_code" ->
             [raised |-> None, out |-> HtmlRendererBlockCode(body)]
      [] cls = "HTMLRenderer" /\ hook = "block_html" ->
             [raised |-> None, out |-> HtmlRendererBlockHtml(body)]

\* state.src after the before-parse hooks ran over it in order
RECURSIVE RunBeforeParse(_, _)
RunBeforeParse(hooks, s) ==
    IF hooks = <<>> THEN s
    ELSE RunBeforeParse(Tail(hooks), process_mentions(s))

\* the callable make_renderer returns, Markup(markup(text)): the source is
\* rewritten by the before-parse hooks, parsed into a block of the
\* document's kind, and the block rendered by the hook of that kind
Render(f, d) ==
    CallHook(f.hooks[d.kind], d.kind, RunBeforeParse(f.before_parse_hooks, d.body),
             d.info)

BodyAlphabet == {"<", "a", "@"}

\* the documents: a raw HTML block, or a code block with or without a
\* language the highlighter knows
Docs ==
    {[kind |-> k, info |-> i, body |-> b] :
        k \in {"block_code", "block_html"}, i \in {None, "python"},
        b \in Strings(BodyAlphabet, MaxBody)}

NoDoc == [kind |-> "<none>", info |-> None, body |-> <<>>]

ComposeIdle ==
    /\ classes = <<>>
    /\ mkPlugins = <<>>
    /\ filter = NotBuilt
    /\ doc = NoDoc
    /\ rendered = NotCalled

ComposeInit ==
    /\ classes \in ClassSeqs
    /\ mkPlugins \in {DEFAULT_PLUGINS, <<>>}
    /\ filter = NotBuilt
    /\ doc = NoDoc
    /\ rendered = NotCalled

\* startup calls make_renderer
MakeRenderer ==
    /\ filter = NotBuilt
    /\ filter' = make_renderer(classes, mkPlugins)
    /\ UNCHANGED <<classes, mkPlugins, doc, rendered>>
    /\ UNCHANGED <<mentionVars, codeVars, urlVars, buildVars, calls, cliVars>>

\* a template applies the built filter to a document
CallFilter ==
    /\ filter.error = None
    /\ rendered = NotCalled
    /\ \E d \in Docs :
          /\ d.kind = "block_html" => d.info = None
          /\ doc' = d
          /\ rendered' = Render(filter, d)
    /\ UNCHANGED <<classes, mkPlugins, filter>>
    /\ UNCHANGED <<mentionVars, codeVars, urlVars, buildVars, calls, cliVars>>

ComposeNext == MakeRenderer \/ CallFilter

----------------------------------------------------------------------------
(* Pipeline orchestrator: flaskbb_jinja_directives, markup.py:122-134 *)

\* the list objects of the startup: the module's DEFAULT_PLUGINS, the two
\* slices taken of it, and the list a hook call returns
ListIds == {"DEFAULT_PLUGINS", "post_copy", "nonpost_copy", "hook_result"}

NoList == <<"<no list>">>

\* what an implementation of a plugin-list hook does with the list it is
\* handed, and what it returns: it appends a plugin, removes the mention
\* plugin, reorders the list (returning None), or returns a plugin
ImplKinds ==
    {[op |-> "append", ret |-> None],
     [op |-> "remove_mention", ret |-> None],
     [op |-> "reverse", ret |-> None],
     [op |-> "nothing", ret |-> "extra"]}

ImplSeqs == Strings(ImplKinds, MaxImpls)

\* the class lists the class hooks return here: the intrinsic renderer
\* alone, after a plugin's class, and before a subclass of itself
BuildClassSeqs ==
    {<<"FlaskBBRenderer">>, <<"PluginA", "FlaskBBRenderer">>,
     <<"FlaskBBRenderer", "PluginC">>}

\* one implementation run on the list l
ApplyImpl(impl, l) ==
    CASE impl.op = "append" -> l \o <<"extra">>
      [] impl.op = "remove_mention" ->
             SelectSeq(l, LAMBDA x : x # "plugin_mention")
      [] impl.op = "reverse" -> Reverse(l)
      [] impl.op = "nothing" -> l

\* the list l after the hook call ran every implementation on it
RECURSIVE ApplyImpls(_, _)
ApplyImpls(impls, l) ==
    IF impls = <<>> THEN l
    ELSE ApplyImpls(Tail(impls), ApplyImpl(Head(impls), l))

\* the value of the hook call: the results of the implementations that are
\* not None
RECURSIVE HookResults(_)
HookResults(impls) ==
    IF impls = <<>> THEN <<>>
    ELSE (IF Head(impls).ret = None THEN <<>> ELSE <<Head(impls).ret>>)
             \o HookResults(Tail(impls))

\* plugins = DEFAULT_PLUGINS without the slice: the same list object
ListAlias(h, source, fresh) == [ref |-> source, heap |-> h]

\* plugins = DEFAULT_PLUGINS[:]: a new list object with the same elements
ListCopy(h, source, fresh) ==
    [ref |-> fresh, heap |-> [h EXCEPT ![fresh] = h[source]]]

BuildIdle ==
    /\ buildPc = "idle"
    /\ heap = [i \in ListIds |-> NoList]
    /\ render_classes = <<>>
    /\ plugins = "DEFAULT_PLUGINS"
    /\ postImpls = <<>>
    /\ nonpostImpls = <<>>
    /\ filters = [markup |-> NotBuilt, nonpost_markup |-> NotBuilt]

BuildInit ==
    /\ buildPc = "post_classes"
    /\ heap = [i \in ListIds |->
                  IF i = "DEFAULT_PLUGINS" THEN DEFAULT_PLUGINS ELSE NoList]
    /\ render_classes = <<>>
    /\ plugins = "DEFAULT_PLUGINS"
    /\ postImpls \in ImplSeqs
    /\ nonpostImpls \in ImplSeqs
    /\ filters = [markup |-> NotBuilt, nonpost_markup |-> NotBuilt]

\* line 124: render_classes = pluggy.hook.flaskbb_load_post_markdown_class()
PostClasses ==
    /\ buildPc = "post_classes"
    /\ render_classes' \in BuildClassSeqs
    /\ buildPc' = "post_copy"
    /\ UNCHANGED <<heap, plugins, postImpls, nonpostImpls, filters>>
    /\ UNCHANGED <<mentionVars, codeVars, urlVars, composeVars, calls, cliVars>>

\* line 125: plugins = DEFAULT_PLUGINS[:]
PostCopy ==
    /\ buildPc = "post_copy"
    /\ LET c == ListCopy(heap, "DEFAULT_PLUGINS", "post_copy")
       IN  plugins' = c.ref /\ heap' = c.heap
    /\ buildPc' = "post_hook"
    /\ UNCHANGED <<render_classes, postImpls, nonpostImpls, filters>>
    /\ UNCHANGED <<mentionVars, codeVars, urlVars, composeVars, calls, cliVars>>

\* line 126: the hook call; its value is dropped
PostHook ==
    /\ buildPc = "post_hook"
    /\ heap' = [heap EXCEPT ![plugins] = ApplyImpls(postImpls, heap[plugins])]
    /\ buildPc' = "post_make"
    /\ UNCHANGED <<render_classes, plugins, postImpls, nonpostImpls, filters>>
    /\ UNCHANGED <<mentionVars, codeVars, urlVars, composeVars, calls, cliVars>>

\* line 127: filters["markup"] = make_renderer(render_classes, plugins);
\* an exception of make_renderer ends the startup
PostMake ==
    /\ buildPc = "post_make"
    /\ LET f == make_renderer(render_classes, heap[plugins])
       IN  IF f.error = None
           THEN /\ filters' = [filters EXCEPT !.markup = f]
                /\ buildPc' = "nonpost_classes"
           ELSE /\ filters' = filters
                /\ buildPc' = "failed"
    /\ UNCHANGED <<heap, render_classes, plugins, postImpls, nonpostImpls>>
    /\ UNCHANGED <<mentionVars, codeVars, urlVars, composeVars, calls, cliVars>>

\* line 129
NonpostClasses ==
    /\ buildPc = "nonpost_classes"
    /\ render_classes' \in BuildClassSeqs
    /\ buildPc' = "nonpost_copy"
    /\ UNCHANGED <<heap, plugins, postImpls, nonpostImpls, filters>>
    /\ UNCHANGED <<mentionVars, codeVars, urlVars, composeVars, calls, cliVars>>

\* line 130: plugins = DEFAULT_PLUGINS[:]
NonpostCopy ==
    /\ buildPc = "nonpost_copy"
    /\ LET c == ListCopy(heap, "DEFAULT_PLUGINS", "nonpost_copy")
       IN  plugins' = c.ref /\ heap' = c.heap
    /\ buildPc' = "nonpost_hook"
    /\ UNCHANGED <<render_classes, postImpls, nonpostImpls, filters>>
    /\ UNCHANGED <<mentionVars, codeVars, urlVars, composeVars, calls, cliVars>>

\* lines 131-133: the hook call runs the implementations on the list, and
\* plugins is assigned the value of the call
NonpostHook ==
    /\ buildPc = "nonpost_hook"
    /\ heap' = [heap EXCEPT
                   ![plugins] = ApplyImpls(nonpostImpls, heap[plugins]),
                   !["hook_result"] = HookResults(nonpostImpls)]
    /\ plugins' = "hook_result"
    /\ buildPc' = "nonpost_make"
    /\ UNCHANGED <<render_classes, postImpls, nonpostImpls, filters>>
    /\ UNCHANGED <<mentionVars, codeVars, urlVars, composeVars, calls, cliVars>>

\* line 134: filters["nonpost_markup"] = make_renderer(render_classes, plugins)
NonpostMake ==
    /\ buildPc = "nonpost_make"
    /\ LET f == make_renderer(render_classes, heap[plugins])
       IN  IF f.error = None
           THEN /\ filters' = [filters EXCEPT !.nonpost_markup = f]
                /\ buildPc' = "done"
           ELSE /\ filters' = filters
                /\ buildPc' = "failed"
    /\ UNCHANGED <<heap, render_classes, plugins, postImpls, nonpostImpls>>
    /\ UNCHANGED <<mentionVars, codeVars, urlVars, composeVars, calls, cliVars>>

BuildNext ==
    \/ PostClasses
    \/ PostCopy
    \/ PostHook
    \/ PostMake
    \/ NonpostClasses
    \/ NonpostCopy
    \/ NonpostHook
    \/ NonpostMake

----------------------------------------------------------------------------
(* Concurrent calls of the built filters: the lambda of make_renderer,     *)
(* markup.py:148, and process_mentions, markup.py:59-60                    *)

Threads == 1..NumCalls

\* the documents the threads render
RenderDocs ==
    {[kind |-> "block_html", info |-> None, body |-> <<"@", "a">>],
     [kind |-> "block_html", info |-> None, body |-> <<"<", "a">>],
     [kind |-> "block_code", info |-> None, body |-> <<"@", "a">>],
     [kind |-> "block_code", info |-> "python", body |-> <<"<", "a">>]}

FilterNames == {"markup", "nonpost_markup"}

NoCall ==
    [pc |-> "idle", name |-> "markup", doc |-> NoDoc, state |-> [src |-> <<>>],
     result |-> NotCalled]

\* the filters as flaskbb_jinja_directives builds them when no plugin
\* implements a hook: the intrinsic class for both, the default plugins for
\* markup and the (empty) hook result for nonpost_markup
StartupFilters ==
    [markup |-> make_renderer(<<"FlaskBBRenderer">>, DEFAULT_PLUGINS),
     nonpost_markup |->
         make_renderer(<<"FlaskBBRenderer">>, HookResults(<<>>))]

\* process_mentions that also registers itself with md again
ProcessMentionsRegisters(md, st) ==
    [md |-> [md EXCEPT !.before_parse_hooks = Append(@, "process_mentions")],
     state |-> [st EXCEPT !.src = process_mentions(st.src)]]

\* process_mentions(md, state): md is left alone, state.src is rewritten
ProcessMentionsCall(md, st) ==
    [md |-> md, state |-> [st EXCEPT !.src = process_mentions(st.src)]]

\* for hook in md.before_parse_hooks: hook(md, state)
RECURSIVE RunHooks(_, _, _)
RunHooks(hooks, md, st) ==
    IF hooks = <<>> THEN [md |-> md, state |-> st]
    ELSE LET r == ProcessMentionsCall(md, st)
         IN  RunHooks(Tail(hooks), r.md, r.state)

CallsIdle == calls = [c \in Threads |-> NoCall]

RenderInit ==
    /\ buildPc = "done"
    /\ heap = [i \in ListIds |->
                  CASE i = "hook_result" -> <<>>
                    [] OTHER -> DEFAULT_PLUGINS]
    /\ render_classes = <<"FlaskBBRenderer">>
    /\ plugins = "hook_result"
    /\ postImpls = <<>>
    /\ nonpostImpls = <<>>
    /\ filters = StartupFilters
    /\ calls = [c \in Threads |-> NoCall]

\* a thread calls a filter with a text: the parser makes a state of its own
\* for the call and puts the text into state.src
CallStart(c) ==
    /\ calls[c].pc = "idle"
    /\ \E n \in FilterNames, d \in RenderDocs :
          calls' = [calls EXCEPT ![c] =
                       [pc |-> "before_parse", name |-> n, doc |-> d,
                        state |-> [src |-> d.body], result |-> NotCalled]]
    /\ UNCHANGED buildVars
    /\ UNCHANGED <<mentionVars, codeVars, urlVars, composeVars, cliVars>>

\* the thread runs the before-parse hooks of the filter on its state
CallBeforeParse(c) ==
    /\ calls[c].pc = "before_parse"
    /\ LET md == filters[calls[c].name]
           r == RunHooks(md.before_parse_hooks, md, calls[c].state)
       IN  /\ filters' = [filters EXCEPT ![calls[c].name] = r.md]
           /\ calls' = [calls EXCEPT ![c].state = r.state,
                                     ![c].pc = "render"]
    /\ UNCHANGED <<buildPc, heap, render_classes, plugins, postImpls,
                   nonpostImpls>>
    /\ UNCHANGED <<mentionVars, codeVars, urlVars, composeVars, cliVars>>

\* the thread parses state.src and renders the block with the hook of the
\* composed renderer
CallRender(c) ==
    /\ calls[c].pc = "render"
    /\ LET md == filters[calls[c].name]
           d == calls[c].doc
       IN  calls' = [calls EXCEPT
                        ![c].result = CallHook(md.hooks[d.kind], d.kind,
                                               calls[c].state.src, d.info),
                        ![c].pc = "done"]
    /\ UNCHANGED buildVars
    /\ UNCHANGED <<mentionVars, codeVars, urlVars, composeVars, cliVars>>

RenderNext ==
    \E c \in Threads : CallStart(c) \/ CallBeforeParse(c) \/ CallRender(c)

----------------------------------------------------------------------------
(* prompt_config_path, cli/utils.py:164-189 *)

\* the paths the caller passes and the user types
Paths == {"flaskbb.cfg", "a.cfg", "b.cfg", "c.cfg"}

PromptIdle ==
    /\ config_path = "<none>"
    /\ existing = {}
    /\ confirmed = FALSE
    /\ promptPc = "idle"

\* the call: any path, any set of existing files; the files stay as they
\* are for the time of the call
PromptInit ==
    /\ config_path \in Paths
    /\ existing \in SUBSET Paths
    /\ confirmed = FALSE
    /\ promptPc = "check"

\* lines 172-180: os.path.exists(config_path) and click.confirm(...): the
\* user is asked only about a path that exists, and yes leaves the loop
CheckExists ==
    /\ promptPc = "check"
    /\ IF config_path \in existing
       THEN \E answer \in BOOLEAN :
                /\ confirmed' = answer
                /\ promptPc' = IF answer THEN "returned" ELSE "prompt"
       ELSE /\ promptPc' = "prompt"
            /\ UNCHANGED confirmed
    /\ UNCHANGED <<config_path, existing>>
    /\ UNCHANGED <<mentionVars, codeVars, urlVars, composeVars, buildVars>>
    /\ UNCHANGED <<calls, emailVars>>

\* lines 182-187: click.prompt returns what the user typed, config_path
\* itself for an empty answer; a path that does not exist leaves the loop
PromptPath ==
    /\ promptPc = "prompt"
    /\ \E answer \in Paths :
          /\ config_path' = answer
          /\ promptPc' = IF answer \notin existing THEN "returned" ELSE "check"
    /\ UNCHANGED <<existing, confirmed>>
    /\ UNCHANGED <<mentionVars, codeVars, urlVars, composeVars, buildVars>>
    /\ UNCHANGED <<calls, emailVars>>

PromptNext == CheckExists \/ PromptPath

----------------------------------------------------------------------------
(* EmailType.convert, cli/utils.py:28 and 49-65 *)

EmailAlphabet == {"a", "@", "."}

\* v[i..j] is one or more characters other than "@"
NotAtRun(v, i, j) == i <= j /\ \A k \in i..j : v[k] # "@"

\* the positions where a match of _email_regex, [^@]+@[^@]+\.[^@]+, that
\* starts at the first character of v can end
email_regex(v) ==
    {e \in 1..Len(v) :
        \E i, j \in 1..Len(v) :
            /\ NotAtRun(v, 1, i - 1)
            /\ v[i] = "@"
            /\ NotAtRun(v, i + 1, j - 1)
            /\ v[j] = "."
            /\ NotAtRun(v, j + 1, e)}

\* re.match(pattern, string): a match at the beginning of the string, that
\* may end before the string does
re_match(v) == email_regex(v) # {}

\* EmailType.convert(value): the value, or self.fail's BadParameter
convert(v) ==
    IF re_match(v) THEN [raised |-> None, out |-> v]
    ELSE [raised |-> "BadParameter", out |-> <<"invalid email: ">> \o v]

EmailIdle ==
    /\ email_value = <<>>
    /\ converted = NotCalled

EmailInit ==
    /\ email_value \in Strings(EmailAlphabet, MaxEmail)
    /\ converted = NotCalled

Convert ==
    /\ converted = NotCalled
    /\ converted' = convert(email_value)
    /\ UNCHANGED email_value
    /\ UNCHANGED <<mentionVars, codeVars, urlVars, composeVars, buildVars>>
    /\ UNCHANGED <<calls, promptVars>>

EmailNext == Convert

----------------------------------------------------------------------------
(* Specifications *)

InitMention ==
    MentionInit /\ CodeIdle /\ UrlIdle /\ ComposeIdle /\ BuildIdle /\ CallsIdle
        /\ PromptIdle /\ EmailIdle

SpecMention == InitMention /\ [][MentionNext]_vars

InitCode ==
    CodeInit /\ MentionIdle /\ UrlIdle /\ ComposeIdle /\ BuildIdle /\ CallsIdle
        /\ PromptIdle /\ EmailIdle

SpecCode == InitCode /\ [][CodeNext]_vars

InitUrl ==
    UrlInit /\ MentionIdle /\ CodeIdle /\ ComposeIdle /\ BuildIdle /\ CallsIdle
        /\ PromptIdle /\ EmailIdle

SpecUrl == InitUrl /\ [][UrlNext]_vars

InitCompose ==
    ComposeInit /\ MentionIdle /\ CodeIdle /\ UrlIdle /\ BuildIdle /\ CallsIdle
        /\ PromptIdle /\ EmailIdle

SpecCompose == InitCompose /\ [][ComposeNext]_vars

InitBuild ==
    BuildInit /\ MentionIdle /\ CodeIdle /\ UrlIdle /\ ComposeIdle /\ CallsIdle
        /\ PromptIdle /\ EmailIdle

SpecBuild == InitBuild /\ [][BuildNext]_vars

InitRender ==
    RenderInit /\ MentionIdle /\ CodeIdle /\ UrlIdle /\ ComposeIdle
        /\ PromptIdle /\ EmailIdle

SpecRender == InitRender /\ [][RenderNext]_vars

InitPrompt ==
    PromptInit /\ MentionIdle /\ CodeIdle /\ UrlIdle /\ ComposeIdle
        /\ BuildIdle /\ CallsIdle /\ EmailIdle

SpecPrompt == InitPrompt /\ [][PromptNext]_vars

InitEmail ==
    EmailInit /\ MentionIdle /\ CodeIdle /\ UrlIdle /\ ComposeIdle
        /\ BuildIdle /\ CallsIdle /\ PromptIdle

SpecEmail == InitEmail /\ [][EmailNext]_vars

----------------------------------------------------------------------------
(* Claims about the mention expander *)

\* the positions of the at signs that start a mention: at the start of the
\* text or after a non-word character, and followed by a name character
MentionStarts(s) ==
    {i \in 1..Len(s) :
        /\ s[i] = "@"
        /\ (i = 1 \/ s[i - 1] \notin WordChars)
        /\ i < Len(s)
        /\ s[i + 1] \in NameChars}

\* the last position of the longest run of name characters after the at sign p
RunEnd(s, p) ==
    CHOOSE e \in (p + 1)..Len(s) :
        /\ \A k \in (p + 1)..e : s[k] \in NameChars
        /\ (e = Len(s) \/ s[e + 1] \notin NameChars)

\* what position i of s becomes: an opening bracket before the at sign of a
\* mention, the link target after the last character of its name, and the
\* character itself everywhere
ExpectedPiece(s, i) ==
    IF i \in MentionStarts(s) THEN <<"[", s[i]>>
    ELSE IF \E p \in MentionStarts(s) : i = RunEnd(s, p)
         THEN LET p == CHOOSE q \in MentionStarts(s) : i = RunEnd(s, q)
              IN  <<s[i], "]", "(">> \o url_for(SubSeq(s, p + 1, i)) \o <<")">>
         ELSE <<s[i]>>

ExpectedExpansion(s) == Concat([i \in 1..Len(s) |-> ExpectedPiece(s, i)])

\* C4: a pass of the mention expansion rewrites exactly the tokens '@' plus
\* the longest run of name characters whose '@' is at the start of the text
\* or after a non-word character into '[@name](profile path of name)', does
\* not rewrite an '@' that follows a word character, and copies everything
\* else unchanged and in order.
C4_MentionExpansion == runs >= 1 => src = ExpectedExpansion(prev)

\* a mention at the start is rewritten and the at sign after a word character
\* is left alone
C4_Witness ==
    /\ runs = 1
    /\ text = <<"@", "a", "@", "a">>
    /\ src = <<"[", "@", "a", "]", "(", "/", "u", "s", "e", "r", "/", "a", ")",
               "@", "a">>

\* C10 as stated: a second pass over the output of the first changes nothing.
C10_SecondPassChangesNothing == runs = 2 => src = prev

\* C10 as amended: a further pass changes nothing exactly when the text holds
\* no mention (the first pass left it as it was); otherwise the '@name' inside
\* each emitted '[@name](path)' follows '[', a non-word character, and is
\* expanded again.
C10_SecondPassRematches == runs >= 2 => ((src = prev) <=> (prev = text))

\* the second pass wraps the link text of the first pass in another link
C10_Witness ==
    /\ runs = 2
    /\ text = <<"@", "a">>
    /\ src = <<"[", "[", "@", "a", "]", "(", "/", "u", "s", "e", "r", "/", "a",
               ")", "]", "(", "/", "u", "s", "e", "r", "/", "a", ")">>

----------------------------------------------------------------------------
(* Claims about the code block highlighter *)

\* the tags a renderer emits
IsTag(x) ==
    x \in {"<pre>", "</pre>", "<code>", "</code>", "<span>", "</span>",
           "<span class=n>", "<div class=highlight>", "</div>", "<p>", "</p>"}

Entities ==
    { <<"&", <<"&", "a", "m", "p", ";">> >>,
      <<"<", <<"&", "l", "t", ";">> >>,
      <<">", <<"&", "g", "t", ";">> >>,
      <<"\"", <<"&", "q", "u", "o", "t", ";">> >> }

StartsWith(s, pre) == Len(s) >= Len(pre) /\ SubSeq(s, 1, Len(pre)) = pre

\* the text a browser shows for HTML h: tags dropped, entities decoded
RECURSIVE ShownText(_)
ShownText(h) ==
    IF h = <<>> THEN <<>>
    ELSE IF IsTag(Head(h)) THEN ShownText(Tail(h))
    ELSE IF \E e \in Entities : StartsWith(h, e[2])
         THEN LET e == CHOOSE x \in Entities : StartsWith(h, x[2])
              IN  <<e[1]>> \o ShownText(SubSeq(h, Len(e[2]) + 1, Len(h)))
         ELSE <<Head(h)>> \o ShownText(Tail(h))

\* the text shown inside the pre element of h
PreText(h) ==
    LET a == CHOOSE k \in 1..Len(h) : h[k] = "<pre>"
        b == CHOOSE k \in 1..Len(h) : h[k] = "</pre>"
    IN  ShownText(SubSeq(h, a + 1, b - 1))

\* the characters of c, each escaped, in order
EscapedInOrder(c) == Concat([k \in 1..Len(c) |-> EscapeChar(c[k])])

\* C5: block_code never raises; with an absent (None or empty) or an
\* unrecognized tag it returns the escaped code in the generic pre/code
\* container, the same output whichever of these the tag is.
C5_FallbackNeverRaises ==
    codeResult # NotCalled =>
        /\ codeResult.raised = None
        /\ info \notin LexerAliases =>
               codeResult.out = <<"\n", "<pre>", "<code>">>
                   \o EscapedInOrder(code) \o <<"</code>", "</pre>", "\n">>

\* an unrecognized tag gives the escaped fallback
C5_Witness ==
    /\ info = "nosuchlang"
    /\ code = <<"<", "x">>
    /\ codeResult = [raised |-> None,
                     out |-> <<"\n", "<pre>", "<code>", "&", "l", "t", ";", "x",
                               "</code>", "</pre>", "\n">>]

\* r is c without some leading and trailing blank lines (whole lines of
\* whitespace), possibly with a final line break added
BlankLinesRemoved(r, c) ==
    \E i \in 1..(Len(c) + 1), j \in 0..Len(c) :
        /\ r \in {SubSeq(c, i, j), SubSeq(c, i, j) \o <<"\n">>}
        /\ \A k \in 1..(i - 1) : c[k] \in Whitespace
        /\ \A k \in (j + 1)..Len(c) : c[k] \in Whitespace
        /\ (i = 1 \/ c[i - 1] = "\n")
        /\ (j = Len(c) \/ c[j + 1] = "\n" \/ j = 0 \/ c[j] = "\n")

\* r is c without its leading and trailing whitespace
Stripped(r, c) ==
    \E i \in 1..(Len(c) + 1), j \in 0..Len(c) :
        /\ r = SubSeq(c, i, j)
        /\ \A k \in 1..(i - 1) : c[k] \in Whitespace
        /\ \A k \in (j + 1)..Len(c) : c[k] \in Whitespace
        /\ (r = <<>> \/ (r[1] \notin Whitespace /\ r[Len(r)] \notin Whitespace))

\* C6 as stated: the highlighted and the fallback rendering both show the
\* code verbatim, the highlighted one without at most leading and trailing
\* blank lines.
C6_OnlyBlankLinesRemoved ==
    codeResult # NotCalled =>
        IF info \in LexerAliases
        THEN BlankLinesRemoved(PreText(codeResult.out), code)
        ELSE PreText(codeResult.out) = code

\* C6 as amended: the fallback rendering shows the code verbatim; the
\* highlighted rendering shows the code without ALL its leading and trailing
\* whitespace (spaces as well as line breaks, so the indentation of the first
\* line is removed too), followed by one line break, nothing else dropped or
\* reordered.
C6_AllOuterWhitespaceRemoved ==
    codeResult # NotCalled =>
        IF info \in LexerAliases
        THEN \E r \in Strings(CodeAlphabet, Len(code)) :
                 /\ Stripped(r, code)
                 /\ PreText(codeResult.out) = r \o <<"\n">>
        ELSE PreText(codeResult.out) = code

\* the indentation of the first line is gone from the highlighted rendering
C6_Witness ==
    /\ info = "python"
    /\ code = <<" ", "x", "<">>
    /\ codeResult # NotCalled
    /\ PreText(codeResult.out) = <<"x", "<", "\n">>
    /\ codeResult.out = <<"<div class=highlight>", "<pre>", "<span>", "</span>",
                          "<span class=n>", "x", "&", "l", "t", ";", "</span>",
                          "\n", "</pre>", "</div>", "\n">>

----------------------------------------------------------------------------
(* Claims about the URL safety check *)

\* the claim's condition on one url: its host is empty or allowed and its
\* scheme (http for a scheme-less url with a host) is empty or allowed
HostAndSchemeAllowed(u, hosts, https) ==
    LET p == urlparse(u)
        scheme == IF p.scheme = <<>> /\ p.netloc # <<>> THEN <<"http">>
                  ELSE p.scheme
    IN  /\ (p.netloc = <<>> \/ p.netloc \in hosts)
        /\ \/ scheme = <<>>
           \/ scheme = <<"https">>
           \/ (scheme = <<"http">> /\ ~https)

HostSet(hostarg) ==
    IF hostarg.kind = "str" THEN {hostarg.value} ELSE hostarg.value

\* C9: is_safe_url returns False for a url that is None, empty or only
\* whitespace, and returns True only if both the stripped url and the stripped
\* url with every backslash replaced by a slash have an empty or allowed host
\* and an empty or allowed scheme.
C9_SafeOnlyIfBothAllowed ==
    urlPc = "returned" =>
        /\ (url = NoneUrl \/ Range(url) \subseteq Whitespace) => safe = FALSE
        /\ safe = TRUE =>
               LET s == RStrip(LStrip(url))
               IN  /\ HostAndSchemeAllowed(s, HostSet(allowed_hosts),
                                           require_https)
                   /\ HostAndSchemeAllowed(ReplaceBackslash(s),
                                           HostSet(allowed_hosts),
                                           require_https)

\* a url whose backslashes a browser reads as slashes is refused although the
\* url as given has no host
C9_Witness ==
    /\ url = <<"\\", "\\", "e">>
    /\ allowed_hosts.kind = "none"
    /\ urlparse(url).netloc = <<>>
    /\ urlparse(ReplaceBackslash(url)).netloc = <<"e">>
    /\ urlPc = "returned"
    /\ safe = FALSE

----------------------------------------------------------------------------
(* Claims about the renderer composition *)

\* the positions of the overrides in cls that define hook h themselves
Definers(cls, h) == {k \in 1..Len(cls) : h \in Defines(cls[k])}

\* the overrides in cls derive from the library renderer directly
DirectOverrides(cls) ==
    \A k \in 1..Len(cls) : Bases(cls[k]) = <<"HTMLRenderer">>

\* C1 as stated: each hook of the composed renderer is the implementation of
\* the LAST override in the sequence that defines it, the baseline when none
\* does.
C1_LastOverrideWins ==
    (filter.error = None /\ classes # <<>>) =>
        \A h \in Hooks :
            filter.hooks[h] =
                IF Definers(classes, h) = {} THEN "HTMLRenderer"
                ELSE classes[CHOOSE k \in Definers(classes, h) :
                                 \A j \in Definers(classes, h) : j <= k]

\* C1 as amended: for overrides that derive directly from the library
\* renderer the composition succeeds and each hook is the implementation of
\* the FIRST override in the sequence that defines it, the library baseline
\* when none does: [Default, PluginA(X), PluginB(X)] gives PluginA's X.
C1_FirstOverrideWins ==
    (filter # NotBuilt /\ classes # <<>> /\ DirectOverrides(classes)) =>
        /\ filter.error = None
        /\ \A h \in Hooks :
               filter.hooks[h] =
                   IF Definers(classes, h) = {} THEN "HTMLRenderer"
                   ELSE classes[CHOOSE k \in Definers(classes, h) :
                                    \A j \in Definers(classes, h) : k <= j]

\* the composition of the claim's example uses PluginA's hook, not PluginB's
C1_Witness ==
    /\ classes = <<"FlaskBBRenderer", "PluginA", "PluginB">>
    /\ filter.error = None
    /\ filter.hooks["heading"] = "PluginA"
    /\ filter.hooks["block_code"] = "FlaskBBRenderer"

\* C3 as stated: whatever the overrides and plugins, no raw less-than
\* character of the input is in the output of the filter.
C3_AlwaysEscaped ==
    (rendered # NotCalled /\ rendered.raised = None) =>
        "<" \notin Range(rendered.out)

\* C3 as amended: whatever the plugins, the hooks of the intrinsic renderer
\* (FlaskBBRenderer.block_code and the hooks inherited from the library
\* renderer) put no raw less-than character of the input into the output;
\* a hook of a plugin's override class is composed in unchecked.
C3_IntrinsicHooksEscape ==
    (rendered # NotCalled /\ rendered.raised = None
         /\ filter.hooks[doc.kind] \in {"FlaskBBRenderer", "HTMLRenderer"}) =>
        "<" \notin Range(rendered.out)

\* the intrinsic code block hook rendered a code block that holds a tag
C3_Witness ==
    /\ classes = <<"FlaskBBRenderer">>
    /\ mkPlugins = DEFAULT_PLUGINS
    /\ doc = [kind |-> "block_code", info |-> None, body |-> <<"<", "a">>]
    /\ rendered = [raised |-> None,
                   out |-> <<"\n", "<pre>", "<code>", "&", "l", "t", ";", "a",
                             "</code>", "</pre>", "\n">>]

\* the configuration errors of a composition: no class of the sequence
\* derives from the library renderer, or the bases have no consistent order
ConfigurationError(cls) ==
    \/ ~Mro(cls).ok
    \/ "HTMLRenderer" \notin Range(Mro(cls).mro)

\* C11: make_renderer fails on every configuration error of the override
\* sequence (no class with the baseline hooks, the empty sequence included,
\* or bases that cannot be combined), and every call of a built pipeline
\* returns a value without raising, for every text.
C11_ConfigErrorsFailAtStartup ==
    /\ (filter # NotBuilt /\ ConfigurationError(classes)) =>
           filter.error # None
    /\ rendered # NotCalled => rendered.raised = None

----------------------------------------------------------------------------
(* Claims about the pipeline orchestrator *)

\* C2: each pipeline is built with a copy of the intrinsic default plugin
\* list as the implementations of its plugin-list hook changed it in place;
\* with no implementation, with the full intrinsic default list.
C2_BuiltWithModifiedDefaults ==
    buildPc = "done" =>
        /\ filters.markup.plugins = ApplyImpls(postImpls, DEFAULT_PLUGINS)
        /\ filters.nonpost_markup.plugins =
               ApplyImpls(nonpostImpls, DEFAULT_PLUGINS)

\* C7: the two pipelines are configured independently.  The shared default
\* list never changes; the list handed to the non-post hook is the default
\* list whatever the post hook did to its own; once built, the markup filter
\* has the plugins the post implementations left in the post list, and the
\* non-post hook changes neither that list nor the filter; the
\* nonpost_markup filter has only what the non-post implementations
\* contributed.
C7_ProfilesIndependent ==
    /\ buildPc # "idle" => heap["DEFAULT_PLUGINS"] = DEFAULT_PLUGINS
    /\ buildPc = "nonpost_hook" => heap[plugins] = DEFAULT_PLUGINS
    /\ filters.markup # NotBuilt =>
           /\ filters.markup.plugins = ApplyImpls(postImpls, DEFAULT_PLUGINS)
           /\ heap["post_copy"] = filters.markup.plugins
    /\ filters.nonpost_markup # NotBuilt =>
           filters.nonpost_markup.plugins = HookResults(nonpostImpls)

\* the post hook appended a plugin and the non-post hook removed the mention
\* plugin from its own list: neither reached the other list or the default
C7_Witness ==
    /\ buildPc = "done"
    /\ postImpls = <<[op |-> "append", ret |-> None]>>
    /\ nonpostImpls = <<[op |-> "remove_mention", ret |-> None]>>
    /\ heap["post_copy"] = DEFAULT_PLUGINS \o <<"extra">>
    /\ heap["nonpost_copy"] = Tail(DEFAULT_PLUGINS)
    /\ heap["DEFAULT_PLUGINS"] = DEFAULT_PLUGINS
    /\ filters.markup.plugins = DEFAULT_PLUGINS \o <<"extra">>

----------------------------------------------------------------------------
(* Claims about concurrent calls *)

\* C8: whatever the interleaving of the steps of concurrent calls, a call
\* that is done returned what it returns when run alone on the same text with
\* the filter as built at startup, and the filters are as built at startup.
C8_CallsIndependent ==
    /\ filters = StartupFilters
    /\ \A c \in Threads :
           calls[c].pc = "done" =>
               calls[c].result =
                   Render(StartupFilters[calls[c].name], calls[c].doc)

\* two calls of the markup filter were in progress at the same time, each
\* between its mention expansion and its rendering, and both are done with
\* outputs of their own
C8_Witness ==
    /\ NumCalls >= 2
    /\ calls[1].pc = "done"
    /\ calls[2].pc = "render"
    /\ calls[1].name = "markup"
    /\ calls[2].name = "markup"
    /\ calls[1].doc.body = <<"@", "a">>
    /\ calls[1].doc.kind = "block_html"
    /\ calls[2].doc.body = <<"<", "a">>
    /\ calls[2].state.src = <<"<", "a">>
    /\ calls[1].result.out =
           <<"<p>", "[", "@", "a", "]", "(", "/", "u", "s", "e", "r", "/", "a",
             ")", "</p>", "\n">>

----------------------------------------------------------------------------
(* Claims about the command line helpers *)

\* C12: whatever the user answers and whatever files exist, the path
\* prompt_config_path returns is a path that does not exist.
C12_ReturnsPathThatDoesNotExist ==
    promptPc = "returned" => config_path \notin existing

\* the whole of v is non-"@" characters, "@", non-"@" characters, ".",
\* non-"@" characters, each run not empty
EmailShape(v) ==
    \E i, j \in 1..Len(v) :
        /\ 1 < i /\ i + 1 < j /\ j < Len(v)
        /\ v[i] = "@"
        /\ v[j] = "."
        /\ \A k \in 1..Len(v) : v[k] = "@" => k = i

\* C13: convert returns the value unchanged exactly when the whole value
\* has the shape of _email_regex, and otherwise fails with
\* "invalid email: <value>".
C13_ExactMatchOnly ==
    converted # NotCalled =>
        converted =
            IF EmailShape(email_value) THEN [raised |-> None, out |-> email_value]
            ELSE [raised |-> "BadParameter",
                  out |-> <<"invalid email: ">> \o email_value]

====
